---- MODULE Spec2Model ----
(***************************************************************************)
(* A model of erexer/weather_vis: the Streamlit script weather_vis.py      *)
(* (load_data, metric selection, time filter, per-station aggregation,     *)
(* colour scale and get_color) and the batch script data_preprocess.py     *)
(* (monthly norms).                                                        *)
(*                                                                         *)
(* A DataFrame is [cols |-> set of column names, rows |-> sequence of      *)
(* functions from cols to cells, floats |-> the whole-numbered columns     *)
(* held as float64].  A metric cell is an exact rational                   *)
(* <<numerator, denominator>> in lowest terms, NaN is <<>>.  A DATE cell   *)
(* is the text of a date <<year, month, day>>, or <<>> when blank.         *)
(***************************************************************************)
EXTENDS Integers, Sequences, FiniteSets, TLC

VARIABLES
    source,          \* data_preprocess.py: the raw CSV it reads ("seattle_weather.csv")
    file,            \* weather_vis.py: the CSV handed to load_data
    df,              \* weather_vis.py: the result of load_data (a DataFrame or None)
    pc,              \* position of the script run
    metric_code,     \* the metric selected in the sidebar
    time_mode,       \* "All Time" | "By Season" | "By Month"
    season,          \* the season selected in "By Season" mode
    month_index,     \* the month selected in "By Month" mode
    filtered_df,     \* rows of df matching the time filter
    agg_df,          \* the per-station summary rows (a set: row order is not modelled)
    min_val,         \* colour domain minimum
    max_val,         \* colour domain maximum
    current_palette  \* the palette selected for the metric

vars == <<source, file, df, pc, metric_code, time_mode, season, month_index,
          filtered_df, agg_df, min_val, max_val, current_palette>>

----------------------------------------------------------------------------
(* Bounds of the model.                                                    *)

\* most rows of a file of the aggregation inputs
MaxRows == 2
\* most rows of a file of the loader inputs
MaxLoadRows == 2
\* most rows of a raw file of the precompute round trip
MaxRawRows == 3
\* most stations of a colour-scale input
MaxStations == 2
\* station means of the colour-scale inputs range over -MaxTemp..MaxTemp
MaxTemp == 2
\* colour domain bounds and values of the get_color inputs range over -MaxDom..MaxDom
MaxDom == 3

----------------------------------------------------------------------------
(* Exact rational arithmetic for the float columns.                        *)

NaN == <<>>

Abs(x) == IF x < 0 THEN -x ELSE x

RECURSIVE GCD(_, _)
GCD(a, b) == IF b = 0 THEN a ELSE GCD(b, a % b)

\* the rational n/d (d # 0) in lowest terms with a positive denominator
Rat(n, d) ==
    LET g == GCD(Abs(n), Abs(d))
        s == IF d < 0 THEN -1 ELSE 1
    IN  <<(s * n) \div g, (s * d) \div g>>

Num(k) == <<k, 1>>

RAdd(a, b) == Rat(a[1] * b[2] + b[1] * a[2], a[2] * b[2])
RSub(a, b) == Rat(a[1] * b[2] - b[1] * a[2], a[2] * b[2])
RLess(a, b) == a[1] * b[2] < b[1] * a[2]
RLeq(a, b) == a[1] * b[2] <= b[1] * a[2]

\* Python's built-in min(a, b) and max(a, b): the first argument wins a tie
PyMin(a, b) == IF RLess(b, a) THEN b ELSE a
PyMax(a, b) == IF RLess(a, b) THEN b ELSE a

RECURSIVE RSum(_)
RSum(s) == IF s = <<>> THEN Num(0) ELSE RAdd(Head(s), RSum(Tail(s)))

\* a mean that counts a NaN cell as an observation of 0
SeriesMeanNaNAsZero(cells) ==
    LET valid == SelectSeq(cells, LAMBDA c : c # NaN)
    IN  IF valid = <<>> THEN NaN
        ELSE LET t == RSum(valid) IN Rat(t[1], t[2] * Len(cells))

\* Series.mean(): NaN cells are skipped; no valid cell gives NaN
SeriesMean(cells) ==
    LET valid == SelectSeq(cells, LAMBDA c : c # NaN)
    IN  IF valid = <<>> THEN NaN
        ELSE LET t == RSum(valid) IN Rat(t[1], t[2] * Len(valid))

\* Series.min() / Series.max() of a non-empty set of numbers
SeriesMin(S) == CHOOSE x \in S : \A y \in S : RLeq(x, y)
SeriesMax(S) == CHOOSE x \in S : \A y \in S : RLeq(y, x)

----------------------------------------------------------------------------
(* Static tables of weather_vis.py.                                        *)

\* the keys of DATA_DEFINITIONS, in dictionary order
DATA_DEFINITIONS ==
    <<"TAVG", "TMAX", "TMIN", "PRCP", "DT32", "DP01", "DP10", "DSND", "DSNW">>

\* a season_map that takes December for an autumn month
season_map_december_autumn ==
    [m \in 1..12 |->
        IF m \in {1, 2} THEN "Winter"
        ELSE IF m \in {3, 4, 5} THEN "Spring"
        ELSE IF m \in {6, 7, 8} THEN "Summer"
        ELSE "Autumn"]

\* the season_map dictionary (the same literal in both branches of load_data)
season_map ==
    [m \in 1..12 |->
        IF m \in {12, 1, 2} THEN "Winter"
        ELSE IF m \in {3, 4, 5} THEN "Spring"
        ELSE IF m \in {6, 7, 8} THEN "Summer"
        ELSE "Autumn"]

\* the options of the "Select Season" box
SeasonOptions == {"Winter", "Spring", "Summer", "Autumn"}

\* calendar.month_name
month_name ==
    <<"", "January", "February", "March", "April", "May", "June", "July",
      "August", "September", "October", "November", "December">>

COLOR_SCALES ==
    [temp |-> << <<69, 117, 180>>, <<145, 191, 219>>, <<224, 243, 248>>,
                 <<254, 224, 144>>, <<252, 141, 89>>, <<215, 48, 39>> >>,
     precip |-> << <<247, 251, 255>>, <<222, 235, 247>>, <<198, 219, 239>>,
                   <<107, 174, 214>>, <<49, 130, 189>>, <<8, 81, 156>> >>]

\* the alpha component get_color appends
Alpha == 240

----------------------------------------------------------------------------
(* Missing values of the derived columns.                                  *)

\* the missing datetime
NaT == <<>>
\* a missing value in the float column Month (no month column of the inputs holds it)
MonthNaN == 0 - 1
\* a missing value in an object column
StrNaN == "NaN"

\* load_data's return value after an exception
None == [none |-> TRUE]

----------------------------------------------------------------------------
(* load_data                                                               *)

DaysIn(m) == IF m = 2 THEN 28 ELSE IF m \in {4, 6, 9, 11} THEN 30 ELSE 31

\* pd.to_datetime raises on a cell that is no calendar date; a blank cell is fine
Parseable(cell) ==
    \/ cell = <<>>
    \/ /\ Len(cell) = 3
       /\ cell[2] \in 1..12
       /\ cell[3] \in 1..DaysIn(cell[2])

\* pd.to_datetime of a parseable cell: the date, or NaT for a blank cell
to_datetime(cell) == IF cell = <<>> THEN NaT ELSE cell

\* Series.dt.month and Series.dt.month_name()
dt_month(d) == IF d = NaT THEN MonthNaN ELSE d[2]
dt_month_name(d) == IF d = NaT THEN StrNaN ELSE month_name[d[2] + 1]

\* Series.map(season_map): a key the dictionary lacks maps to NaN
MapSeason(m) == IF m \in DOMAIN season_map THEN season_map[m] ELSE StrNaN

\* calendar.month_name[x] raises IndexError outside -13..12
MonthNameRaises(x) == x \notin (0 - 13)..12
MonthNameAt(x) == IF x >= 0 THEN month_name[x + 1] ELSE month_name[x + 14]

\* a pre-processed branch that maps the season whether or not the file has one
MonthBranchSeasonAlwaysMapped(f, r) == MapSeason(r["Month"])

\* "Ensure Season exists (if not in file, map it)"
MonthBranchSeason(f, r) ==
    IF "Season" \notin f.cols THEN MapSeason(r["Month"]) ELSE r["Season"]

\* the DATE column holds a blank cell
HasBlankDate(f) == \E i \in DOMAIN f.rows : f.rows[i]["DATE"] = <<>>

\* calendar.month_name[x] raises TypeError on a float: a Month column read as float64
MonthIsFloat(f) == "Month" \in f.floats /\ f.rows # <<>>

load_data(f) ==
    IF "DATE" \in f.cols THEN
        IF \E i \in DOMAIN f.rows : ~Parseable(f.rows[i]["DATE"]) THEN None
        ELSE
            LET newcols == f.cols \cup {"Month", "Month_Name", "Season"}
            IN  [cols |-> newcols,
                 \* dt.month is float64 when a date is missing
                 floats |-> IF HasBlankDate(f) THEN f.floats \cup {"Month"}
                            ELSE f.floats \ {"Month"},
                 rows |-> [i \in DOMAIN f.rows |->
                    LET r == f.rows[i]
                        d == to_datetime(r["DATE"])
                    IN  [c \in newcols |->
                            CASE c = "DATE" -> d
                              [] c = "Month" -> dt_month(d)
                              [] c = "Month_Name" -> dt_month_name(d)
                              [] c = "Season" -> MapSeason(dt_month(d))
                              [] OTHER -> r[c]]]]
    ELSE IF "Month" \in f.cols THEN
        IF \/ MonthIsFloat(f)
           \/ \E i \in DOMAIN f.rows : MonthNameRaises(f.rows[i]["Month"])
        THEN None
        ELSE
            LET newcols == f.cols \cup {"Month_Name", "Season"}
            IN  [cols |-> newcols,
                 floats |-> f.floats,
                 rows |-> [i \in DOMAIN f.rows |->
                    LET r == f.rows[i]
                    IN  [c \in newcols |->
                            CASE c = "Month_Name" -> MonthNameAt(r["Month"])
                              [] c = "Season" -> MonthBranchSeason(f, r)
                              [] OTHER -> r[c]]]]
    ELSE f

----------------------------------------------------------------------------
(* The script after load_data: metric selection, time filter, aggregation. *)

Range(s) == {s[i] : i \in DOMAIN s}

\* available_metrics: the DATA_DEFINITIONS keys that are columns, in dictionary order
available_metrics(d) == SelectSeq(DATA_DEFINITIONS, LAMBDA c : c \in d.cols)

\* the columns a time mode reads
ModeColumn(mode) ==
    IF mode = "By Season" THEN {"Season"}
    ELSE IF mode = "By Month" THEN {"Month"}
    ELSE {}

\* filtered_df: the boolean-mask filters of the three time modes
TimeFilter(d, mode, s, mi) ==
    IF mode = "By Season" THEN SelectSeq(d.rows, LAMBDA r : r["Season"] = s)
    ELSE IF mode = "By Month" THEN SelectSeq(d.rows, LAMBDA r : r["Month"] = mi)
    ELSE d.rows

GroupCols == {"STATION", "NAME", "LATITUDE", "LONGITUDE"}

GroupKey(r) == <<r["STATION"], r["NAME"], r["LATITUDE"], r["LONGITUDE"]>>

\* the metric cells of the rows of one group, in row order
GroupCells(rows, key, metric) ==
    LET members == SelectSeq(rows, LAMBDA r : GroupKey(r) = key)
    IN  [i \in DOMAIN members |-> members[i][metric]]

\* groupby([...])[metric].mean().reset_index(): one row per group key
GroupMeans(rows, metric) ==
    {[STATION |-> k[1], NAME |-> k[2], LATITUDE |-> k[3], LONGITUDE |-> k[4],
      val |-> SeriesMean(GroupCells(rows, k, metric))] :
        k \in {GroupKey(r) : r \in Range(rows)}}

\* agg_df: the group means with the NaN means dropped
Aggregate(rows, metric) == {g \in GroupMeans(rows, metric) : g.val # NaN}

----------------------------------------------------------------------------
(* Colour scale and get_color.                                             *)

TempMetrics == {"TAVG", "TMAX", "TMIN"}

Vals(agg) == {g.val : g \in agg}

Palette(metric) ==
    IF metric \in TempMetrics THEN COLOR_SCALES.temp ELSE COLOR_SCALES.precip

\* min_val: the data's minimum for a temperature, 0.0 otherwise
MinVal(metric, agg) ==
    IF metric \in TempMetrics THEN SeriesMin(Vals(agg)) ELSE Num(0)

\* max_val: the data's maximum, replaced by 1.0 when it is 0
MaxVal(metric, agg) ==
    LET m == SeriesMax(Vals(agg))
    IN  IF m = Num(0) THEN Num(1) ELSE m

\* int(x) of a non-negative rational n/d: truncation
Trunc(n, d) == n \div d

\* a get_color that rounds the blended channels to the nearest integer
get_color_rounded(value, min_v, max_v, palette) ==
    LET v == PyMax(min_v, PyMin(value, max_v))
    IN  IF max_v = min_v THEN palette[1]
        ELSE
            LET ratio == LET a == RSub(v, min_v)
                             b == RSub(max_v, min_v)
                         IN  Rat(a[1] * b[2], a[2] * b[1])
                n == ratio[1] * (Len(palette) - 1)
                dn == ratio[2]
                lower_idx == n \div dn
                upper_idx == IF lower_idx + 1 < Len(palette) - 1
                             THEN lower_idx + 1 ELSE Len(palette) - 1
                rem == n - lower_idx * dn
                Blend(ch) ==
                    (2 * (palette[lower_idx + 1][ch] * (dn - rem)
                            + palette[upper_idx + 1][ch] * rem) + dn) \div (2 * dn)
            IN  <<Blend(1), Blend(2), Blend(3), Alpha>>

get_color(value, min_v, max_v, palette) ==
    LET v == PyMax(min_v, PyMin(value, max_v))
    IN  IF max_v = min_v THEN palette[1]
        ELSE
            LET ratio == LET a == RSub(v, min_v)
                             b == RSub(max_v, min_v)
                         IN  Rat(a[1] * b[2], a[2] * b[1])
                \* idx = ratio * (len(palette) - 1), as the fraction n / dn
                n == ratio[1] * (Len(palette) - 1)
                dn == ratio[2]
                lower_idx == Trunc(n, dn)
                upper_idx == IF lower_idx + 1 < Len(palette) - 1
                             THEN lower_idx + 1 ELSE Len(palette) - 1
                \* remainder = idx - lower_idx, as the fraction rem / dn
                rem == n - lower_idx * dn
                Blend(ch) ==
                    Trunc(palette[lower_idx + 1][ch] * (dn - rem)
                            + palette[upper_idx + 1][ch] * rem, dn)
            IN  <<Blend(1), Blend(2), Blend(3), Alpha>>

\* agg_df["fill_color"] = agg_df[metric].apply(get_color ...)
WithFillColor(agg, min_v, max_v, palette) ==
    {[STATION |-> g.STATION, NAME |-> g.NAME, LATITUDE |-> g.LATITUDE,
      LONGITUDE |-> g.LONGITUDE, val |-> g.val,
      fill_color |-> get_color(g.val, min_v, max_v, palette)] : g \in agg}

----------------------------------------------------------------------------
(* data_preprocess.py: the monthly norms.                                  *)

NormCols == {"STATION", "NAME", "LATITUDE", "LONGITUDE", "Month"}

\* metrics present in the raw file, in the order of the script's list
PreMetrics(f) == SelectSeq(DATA_DEFINITIONS, LAMBDA c : c \in f.cols)

\* the raw rows with DATE parsed and Month added
PreRows(f) ==
    [i \in DOMAIN f.rows |->
        [c \in f.cols \cup {"Month"} |->
            IF c = "Month" THEN dt_month(to_datetime(f.rows[i]["DATE"]))
            ELSE IF c = "DATE" THEN to_datetime(f.rows[i]["DATE"])
            ELSE f.rows[i][c]]]

NormKey(r) == <<r["STATION"], r["NAME"], r["LATITUDE"], r["LONGITUDE"], r["Month"]>>

\* groupby drops the rows whose key holds a missing value; it sorts the groups by key
NormKeys(rows) == {NormKey(r) : r \in {x \in Range(rows) : x["Month"] # MonthNaN}}

NormCells(rows, key, metric) ==
    LET members == SelectSeq(rows, LAMBDA r : NormKey(r) = key)
    IN  [i \in DOMAIN members |-> members[i][metric]]

\* a monthly value that is the sum of the month's readings
NormValueSum(rows, key, metric) ==
    LET valid == SelectSeq(NormCells(rows, key, metric), LAMBDA c : c # NaN)
    IN  IF valid = <<>> THEN NaN ELSE RSum(valid)

\* df.groupby(group_cols)[available_metrics].mean(): one cell of df_agg
NormValue(rows, key, metric) == SeriesMean(NormCells(rows, key, metric))

\* the order of the strings of the inputs
StringOrder == <<"A", "B", "S1", "S2", "S3", "S4">>
StrIndex(x) == CHOOSE i \in DOMAIN StringOrder : StringOrder[i] = x

\* lexicographic order of the group keys (the coordinates never differ in the inputs)
KeyBefore(a, b) ==
    \/ StrIndex(a[1]) < StrIndex(b[1])
    \/ a[1] = b[1] /\ StrIndex(a[2]) < StrIndex(b[2])
    \/ a[1] = b[1] /\ a[2] = b[2] /\ a[5] < b[5]

RECURSIVE SortKeys(_)
SortKeys(K) ==
    IF K = {} THEN <<>>
    ELSE LET k == CHOOSE x \in K : \A y \in K \ {x} : KeyBefore(x, y)
         IN  <<k>> \o SortKeys(K \ {k})

\* df_agg with its Season column, as written by to_csv
Preprocess(f) ==
    LET rows == PreRows(f)
        keys == SortKeys(NormKeys(rows))
        cols == NormCols \cup Range(PreMetrics(f)) \cup {"Season"}
    IN  [cols |-> cols,
         \* Month is float64 when a date is missing, and to_csv writes it as 1.0
         floats |-> IF HasBlankDate(f) THEN {"Month"} ELSE {},
         rows |-> [i \in DOMAIN keys |->
            [c \in cols |->
                CASE c = "STATION" -> keys[i][1]
                  [] c = "NAME" -> keys[i][2]
                  [] c = "LATITUDE" -> keys[i][3]
                  [] c = "LONGITUDE" -> keys[i][4]
                  [] c = "Month" -> keys[i][5]
                  [] c = "Season" -> MapSeason(keys[i][5])
                  [] OTHER -> NormValue(rows, keys[i], c)]]]

----------------------------------------------------------------------------
(* The input files of the model.                                           *)

SeqsUpTo(S, n) == UNION {[1..k -> S] : k \in 0..n}

StationIds == <<"S1", "S2", "S3", "S4">>
\* latitude and longitude of every station of the inputs
Coord == <<47, 0 - 122>>
Lat == Coord[1]
Lon == Coord[2]

\* a date text of the year 2023
Day(m, d) == <<2023, m, d>>

NoFile == [cols |-> {}, floats |-> {}, rows |-> <<>>]

\* dated daily rows of two stations, names that may disagree, PRCP that may be missing
AggRowSet ==
    {[STATION |-> s, NAME |-> n, LATITUDE |-> Lat, LONGITUDE |-> Lon,
      DATE |-> Day(m, 1), PRCP |-> v] :
        s \in {"S1", "S2"}, n \in {"A", "B"}, m \in {1, 3}, v \in {NaN, Num(1), Num(5)}}

AggFiles ==
    {[cols |-> GroupCols \cup {"DATE", "PRCP"}, floats |-> {}, rows |-> rs] :
        rs \in SeqsUpTo(AggRowSet, MaxRows)}

\* one row per station, one metric column: the station means are the cells
ColorRows(k) ==
    {rs \in [1..k -> [STATION : Range(StationIds), NAME : {"A"}, LATITUDE : {Lat},
                      LONGITUDE : {Lon}, Month : {1},
                      val : {Num(t) : t \in (0 - MaxTemp)..MaxTemp}]] :
        \A i \in 1..k : rs[i].STATION = StationIds[i]}

ColorFiles ==
    {[cols |-> GroupCols \cup {"Month", metric}, floats |-> {},
      rows |-> [i \in DOMAIN rs |->
                 [c \in GroupCols \cup {"Month", metric} |->
                     IF c = metric THEN rs[i].val ELSE rs[i][c]]]] :
        metric \in {"TAVG", "PRCP"},
        rs \in UNION {ColorRows(k) : k \in 1..MaxStations}}

\* files of one station in every column layout load_data distinguishes: dated rows
\* (any month, a blank date, the 30th of February), month rows (0..13), month and
\* season rows (a label that is no season of the mapping included), rows with all
\* three columns, rows with neither, and rows without a metric column
LoadLayouts ==
    LET base == [STATION : {"S1"}, NAME : {"A"}, LATITUDE : {Lat}, LONGITUDE : {Lon}]
        Ext(r, more) == [c \in DOMAIN r \cup DOMAIN more |->
                            IF c \in DOMAIN more THEN more[c] ELSE r[c]]
        With(more) == {Ext(r, m) : r \in base, m \in more}
        dates == {Day(m, 1) : m \in 1..12} \cup {Day(2, 30), <<>>}
    IN  { With([DATE : dates, PRCP : {Num(1)}]),
          With([Month : 0..13, PRCP : {Num(1)}]),
          With([Month : {1, 6}, Season : {"Winter", "Summer", "Fall"},
                PRCP : {Num(1)}]),
          With([DATE : {Day(1, 1), Day(6, 1), <<>>}, Month : {1},
                Season : {"Winter", "Fall"}, PRCP : {Num(1)}]),
          With([PRCP : {Num(1)}]),
          With([Month : {1}]) }

LoadFiles ==
    {[cols |-> DOMAIN (CHOOSE r \in layout : TRUE), floats |-> {}, rows |-> rs] :
        <<layout, rs>> \in UNION {{<<l, x>> : x \in SeqsUpTo(l, MaxLoadRows)} :
                                    l \in LoadLayouts}}

----------------------------------------------------------------------------
(* The script run.                                                         *)

\* values of the variables a run has not assigned yet
Fresh ==
    /\ metric_code = ""
    /\ time_mode = "All Time"
    /\ season = ""
    /\ month_index = 0
    /\ filtered_df = <<>>
    /\ agg_df = {}
    /\ min_val = NaN
    /\ max_val = NaN
    /\ current_palette = <<>>

\* the months the "Select Month" slider is moved to
SliderMonths == {1, 2, 3}

\* df = load_data(...)
LoadData ==
    /\ pc = "load"
    /\ df' = load_data(file)
    /\ pc' = IF df' = None THEN "no_data" ELSE "select"
    /\ UNCHANGED <<source, file, metric_code, time_mode, season, month_index,
                   filtered_df, agg_df, min_val, max_val, current_palette>>

\* 1. DATA SELECTION: st.stop() without a known metric column, else the selectbox
SelectData ==
    /\ pc = "select"
    /\ IF available_metrics(df) = <<>>
       THEN pc' = "stopped" /\ UNCHANGED metric_code
       ELSE /\ \E m \in Range(available_metrics(df)) : metric_code' = m
            /\ pc' = "time"
    /\ UNCHANGED <<source, file, df, time_mode, season, month_index,
                   filtered_df, agg_df, min_val, max_val, current_palette>>

\* 2. TIME AGGREGATION and 3. AGGREGATION LOGIC; a missing column is a KeyError
TimeAggregation ==
    /\ pc = "time"
    /\ \E mode \in {"All Time", "By Season", "By Month"} :
       \E s \in SeasonOptions, mi \in SliderMonths :
          /\ time_mode' = mode
          /\ season' = IF mode = "By Season" THEN s ELSE ""
          /\ month_index' = IF mode = "By Month" THEN mi ELSE 0
          /\ IF ModeColumn(mode) \subseteq df.cols /\ GroupCols \subseteq df.cols
             THEN /\ filtered_df' = TimeFilter(df, mode, s, mi)
                  /\ agg_df' = Aggregate(filtered_df', metric_code)
                  /\ pc' = "vis"
             ELSE /\ pc' = "crashed"
                  /\ UNCHANGED <<filtered_df, agg_df>>
    /\ UNCHANGED <<source, file, df, metric_code, min_val, max_val, current_palette>>

\* "2. Get Date Range": NaT.strftime raises when no filtered row has a date
DateRangeRaises ==
    /\ "DATE" \in df.cols
    /\ \A i \in DOMAIN filtered_df : filtered_df[i]["DATE"] = NaT

\* 4. VISUALIZATION up to the colour domain: the warning for an empty summary,
\* else the palette and min_val / max_val
ColorScale ==
    /\ pc = "vis"
    /\ IF DateRangeRaises
       THEN pc' = "crashed" /\ UNCHANGED <<min_val, max_val, current_palette>>
       ELSE IF agg_df = {}
       THEN pc' = "rendered" /\ UNCHANGED <<min_val, max_val, current_palette>>
       ELSE /\ current_palette' = Palette(metric_code)
            /\ min_val' = MinVal(metric_code, agg_df)
            /\ max_val' = MaxVal(metric_code, agg_df)
            /\ pc' = "color"
    /\ UNCHANGED <<source, file, df, metric_code, time_mode, season, month_index,
                   filtered_df, agg_df>>

\* "Apply color to data" (the formatted_val strings, the legend, the map and the
\* table are presentation and are not modelled)
ApplyColor ==
    /\ pc = "color"
    /\ agg_df' = WithFillColor(agg_df, min_val, max_val, current_palette)
    /\ pc' = "rendered"
    /\ UNCHANGED <<source, file, df, metric_code, time_mode, season, month_index,
                   filtered_df, min_val, max_val, current_palette>>

\* a widget change reruns the script; load_data is served from st.cache_data
Rerun ==
    /\ pc \in {"rendered", "crashed"}
    /\ pc' = "select"
    /\ metric_code' = ""
    /\ time_mode' = "All Time"
    /\ season' = ""
    /\ month_index' = 0
    /\ filtered_df' = <<>>
    /\ agg_df' = {}
    /\ min_val' = NaN
    /\ max_val' = NaN
    /\ current_palette' = <<>>
    /\ UNCHANGED <<source, file, df>>

Next == LoadData \/ SelectData \/ TimeAggregation \/ ColorScale \/ ApplyColor \/ Rerun

InitApp(files) ==
    /\ source = NoFile
    /\ file \in files
    /\ df = None
    /\ pc = "load"
    /\ Fresh

\* the script on dated daily files
Init == InitApp(AggFiles)
Spec == Init /\ [][Next]_vars

\* the script on one-reading-per-station files of a temperature or a precipitation
InitColor == InitApp(ColorFiles)
SpecColor == InitColor /\ [][Next]_vars

\* the script on files of every column layout
InitLoad == InitApp(LoadFiles)
SpecLoad == InitLoad /\ [][Next]_vars

\* data_preprocess.py, then the app on the file it wrote; a date that does not
\* parse ends the script with the exception of pd.to_datetime
PreprocessRun ==
    /\ pc = "preprocess"
    /\ IF \E i \in DOMAIN source.rows : ~Parseable(source.rows[i]["DATE"])
       THEN pc' = "preprocess_failed" /\ UNCHANGED file
       ELSE file' = Preprocess(source) /\ pc' = "load"
    /\ UNCHANGED <<source, df, metric_code, time_mode, season, month_index,
                   filtered_df, agg_df, min_val, max_val, current_palette>>

\* raw daily rows of one station: three months of two seasons or a blank date,
\* readings that may be missing
RawRowSet ==
    {[STATION |-> "S1", NAME |-> "A", LATITUDE |-> Lat, LONGITUDE |-> Lon,
      DATE |-> d, PRCP |-> v] :
        d \in {Day(1, 1), Day(2, 1), Day(3, 1), <<>>}, v \in {NaN, Num(0), Num(3)}}

RawFiles ==
    {[cols |-> GroupCols \cup {"DATE", "PRCP"}, floats |-> {}, rows |-> rs] :
        rs \in SeqsUpTo(RawRowSet, MaxRawRows)}

InitRT ==
    /\ source \in RawFiles
    /\ file = NoFile
    /\ df = None
    /\ pc = "preprocess"
    /\ Fresh
NextRT == PreprocessRun \/ Next
SpecRT == InitRT /\ [][NextRT]_vars

\* palettes of two, three and six colours
Palettes ==
    {COLOR_SCALES.temp, COLOR_SCALES.precip,
     << <<0, 0, 0>>, <<255, 255, 255>> >>,
     << <<10, 20, 30>>, <<110, 70, 31>>, <<255, 0, 64>> >>}

DomValues == {Num(k) : k \in (0 - MaxDom)..MaxDom}

\* get_color on its own: "Apply color to data" on one value, any domain, any palette
InitGC ==
    /\ source = NoFile
    /\ file = NoFile
    /\ df = None
    /\ pc = "color"
    /\ metric_code = ""
    /\ time_mode = "All Time"
    /\ season = ""
    /\ month_index = 0
    /\ filtered_df = <<>>
    /\ \E v \in DomValues :
          agg_df = {[STATION |-> "S1", NAME |-> "A", LATITUDE |-> Lat,
                     LONGITUDE |-> Lon, val |-> v]}
    /\ min_val \in DomValues
    /\ max_val \in DomValues
    /\ current_palette \in Palettes
NextGC == ApplyColor
SpecGC == InitGC /\ [][NextGC]_vars

----------------------------------------------------------------------------
(* Properties of the filter-then-aggregate step.                           *)

\* the run holds a station summary
Aggregated == pc \in {"vis", "color", "rendered"}

\* the scope predicate of the selected time mode
InScope(r) ==
    IF time_mode = "By Season" THEN r["Season"] = season
    ELSE IF time_mode = "By Month" THEN r["Month"] = month_index
    ELSE TRUE

\* the rows of df in scope that hold a value of the metric
ValidRows == {i \in DOMAIN df.rows :
                InScope(df.rows[i]) /\ df.rows[i][metric_code] # NaN}

\* those of one group (station identifier with its name and coordinates)
ValidOf(k) == {i \in ValidRows : GroupKey(df.rows[i]) = k}

\* the sum of the (whole-numbered) metric cells of a set of rows
RECURSIVE SumCells(_)
SumCells(I) ==
    IF I = {} THEN 0
    ELSE LET i == CHOOSE x \in I : TRUE
         IN  df.rows[i][metric_code][1] + SumCells(I \ {i})

\* C1: the station summary holds exactly the stations with a non-missing value of
\* the metric among the records in scope; a station is a group of the aggregator
\* (the identifier with its name and coordinates); the value of each is the mean of
\* its non-missing values only, and no group is emitted twice or with a placeholder.
C1_SummaryIsMeanOfValid ==
    Aggregated =>
        /\ \A g \in agg_df :
               LET I == ValidOf(GroupKey(g))
               IN  /\ I # {}
                   /\ g.val # NaN
                   /\ g.val[1] * Cardinality(I) = SumCells(I) * g.val[2]
        /\ \A i \in ValidRows : \E g \in agg_df : GroupKey(g) = GroupKey(df.rows[i])
        /\ {g.STATION : g \in agg_df} = {df.rows[i]["STATION"] : i \in ValidRows}
        /\ Cardinality(agg_df) = Cardinality({GroupKey(g) : g \in agg_df})

\* a winter summary of one station whose readings in scope are NaN and 5
C1_Witness ==
    /\ pc = "vis"
    /\ time_mode = "By Season"
    /\ Len(filtered_df) = 2
    /\ {filtered_df[i]["PRCP"] : i \in 1..2} = {NaN, Num(5)}
    /\ \E g \in agg_df : agg_df = {g} /\ g.val = Num(5)

\* C2: the summary has at most one row per station identifier of the scoped subset,
\* and exactly one per identifier when every identifier has a valid observation.
C2_OneRowPerIdentifier ==
    Aggregated =>
        LET ids == {filtered_df[i]["STATION"] : i \in DOMAIN filtered_df}
            withValue == {filtered_df[i]["STATION"] :
                            i \in {j \in DOMAIN filtered_df :
                                     filtered_df[j][metric_code] # NaN}}
        IN  /\ Cardinality(agg_df) <= Cardinality(ids)
            /\ withValue = ids => Cardinality(agg_df) = Cardinality(ids)

----------------------------------------------------------------------------
(* Properties of the colour mapper.                                        *)

\* the first and the last colour of the palette in the form get_color computes
FirstColor == current_palette[1] \o <<Alpha>>
LastColor == current_palette[Len(current_palette)] \o <<Alpha>>

\* the run has coloured a non-empty summary
Colored == pc = "rendered" /\ agg_df # {}

\* C3: when the selected domain has maximum = minimum its maximum becomes 1 and
\* every station gets the palette's first colour with the fixed alpha.
C3_DegenerateDomain ==
    (Colored /\ SeriesMax(Vals(agg_df)) = MinVal(metric_code, agg_df)) =>
        /\ max_val = Num(1)
        /\ \A g \in agg_df : g.fill_color = FirstColor

\* C4: for a temperature whose station means differ the domain is [min, max] of the
\* means, the largest mean gets the last colour and the smallest the first.
C4_TemperatureDomain ==
    (Colored /\ metric_code \in TempMetrics
        /\ SeriesMin(Vals(agg_df)) # SeriesMax(Vals(agg_df))) =>
        /\ min_val = SeriesMin(Vals(agg_df))
        /\ max_val = SeriesMax(Vals(agg_df))
        /\ \A g \in agg_df :
              /\ g.val = SeriesMax(Vals(agg_df)) => g.fill_color = LastColor
              /\ g.val = SeriesMin(Vals(agg_df)) => g.fill_color = FirstColor

\* the truncated blend of a whole-numbered value strictly inside a whole-numbered
\* domain, written with integers: position p = num / width over the N - 1 segments
BlendOf(x, lo, hi, palette) ==
    LET width == hi - lo
        num == (x - lo) * (Len(palette) - 1)
        lower == num \div width
        upper == IF lower + 1 > Len(palette) - 1 THEN Len(palette) - 1 ELSE lower + 1
        r == num % width
        Ch(c) == (palette[lower + 1][c] * (width - r) + palette[upper + 1][c] * r)
                    \div width
    IN  <<Ch(1), Ch(2), Ch(3), Alpha>>

\* C5: get_color over a domain with min < max: the ends and everything beyond them
\* give the first and the last colour exactly, values in between the truncated
\* blend of the two neighbouring palette colours.
C5_GetColor ==
    (Colored /\ RLess(min_val, max_val)) =>
        \A g \in agg_df :
            /\ RLeq(g.val, min_val) => g.fill_color = FirstColor
            /\ RLeq(max_val, g.val) => g.fill_color = LastColor
            /\ (RLess(min_val, g.val) /\ RLess(g.val, max_val)) =>
                  g.fill_color = BlendOf(g.val[1], min_val[1], max_val[1],
                                         current_palette)

\* a value a third of the way through the temperature palette: position 5/3,
\* channels 197.67, 225.67, 238.33 before truncation
C5_Witness ==
    /\ Colored
    /\ min_val = Num(0) /\ max_val = Num(3)
    /\ current_palette = COLOR_SCALES.temp
    /\ \E g \in agg_df : g.val = Num(1) /\ g.fill_color = <<197, 225, 238, Alpha>>


----------------------------------------------------------------------------
(* Properties of load_data.                                                *)

\* load_data has returned
Returned == pc # "load"

\* load_data has returned a DataFrame
Loaded == Returned /\ df # None

\* the file without the rows whose date does not parse
ParseableRows(f) ==
    [f EXCEPT !.rows = SelectSeq(f.rows, LAMBDA r : Parseable(r["DATE"]))]

\* C6: a row whose date fails to parse is dropped and the load returns the canonical
\* records of the remaining rows.
C6_BadDateRowsDropped ==
    (Returned /\ "DATE" \in file.cols
        /\ \E i \in DOMAIN file.rows : ~Parseable(file.rows[i]["DATE"])) =>
        /\ df # None
        /\ df = load_data(ParseableRows(file))

\* C7: without a date column and a month column the load fails, returns no record
\* set, and no run ever filters or aggregates.
C7_NoTemporalBasisFails ==
    ("DATE" \notin file.cols /\ "Month" \notin file.cols) =>
        /\ Returned => df = None
        /\ ~Aggregated

FixedSeason(m) ==
    CASE m \in {12, 1, 2} -> "Winter"
      [] m \in {3, 4, 5} -> "Spring"
      [] m \in {6, 7, 8} -> "Summer"
      [] m \in {9, 10, 11} -> "Autumn"

\* load_data derives the season itself
SeasonDerived == "DATE" \in file.cols \/ ("Month" \in file.cols /\ "Season" \notin file.cols)

Seasons(d) == [i \in DOMAIN d.rows |-> d.rows[i]["Season"]]

\* C9 as stated: a record set with month and season columns keeps every season
\* label through load_data, whatever other columns it has.
C9_SeasonKept ==
    (Loaded /\ {"Month", "Season"} \subseteq file.cols) => Seasons(df) = Seasons(file)

\* C9 as amended: without a date column the labels are kept; with a date column
\* they are replaced by the mapping of the date's month (missing for a blank
\* date); and load_data applied to its own result changes no season label.
C9_SeasonKeptWithoutDate ==
    /\ (Loaded /\ {"Month", "Season"} \subseteq file.cols /\ "DATE" \notin file.cols) =>
          Seasons(df) = Seasons(file)
    /\ (Loaded /\ {"Month", "Season"} \subseteq file.cols /\ "DATE" \in file.cols) =>
          \A i \in DOMAIN df.rows :
              df.rows[i]["Season"] =
                  IF file.rows[i]["DATE"] = <<>> THEN StrNaN
                  ELSE FixedSeason(file.rows[i]["DATE"][2])
    /\ (Loaded /\ "Season" \in df.cols) =>
          /\ load_data(df) # None
          /\ Seasons(load_data(df)) = Seasons(df)

\* a June row labelled "Fall" in a file without dates, loaded with its label
C9_Witness ==
    /\ Loaded
    /\ {"Month", "Season"} \subseteq file.cols /\ "DATE" \notin file.cols
    /\ \E i \in DOMAIN df.rows :
          /\ file.rows[i]["Month"] = 6 /\ file.rows[i]["Season"] = "Fall"
          /\ df.rows[i]["Season"] = "Fall"

----------------------------------------------------------------------------
(* The round trip through the monthly norms.                               *)

\* the summary the script computes from the raw file for the selected metric and scope
DirectSummary ==
    Aggregate(TimeFilter(load_data(source), time_mode, season, month_index),
              metric_code)

\* |a - b| <= 1e-6
Close(a, b) == Abs(a[1] * b[2] - b[1] * a[2]) * 1000000 <= a[2] * b[2]

\* the same stations with values within the tolerance
SameSummary(x, y) ==
    /\ {GroupKey(g) : g \in x} = {GroupKey(g) : g \in y}
    /\ \A g \in x, h \in y : GroupKey(g) = GroupKey(h) => Close(g.val, h.val)

\* the app has aggregated the file data_preprocess.py wrote
AggregatedNorms == Aggregated /\ source # NoFile

\* C10 as stated: for every raw dated file (every row carries a date), metric and
\* scope the summary from the monthly norms equals the summary from the raw file.
C10_RoundTrip ==
    (AggregatedNorms /\ ~HasBlankDate(source)) => SameSummary(agg_df, DirectSummary)

\* the valid readings of a month of the raw file
RawCount(m) ==
    Cardinality({i \in DOMAIN source.rows :
                    /\ source.rows[i]["DATE"] # <<>>
                    /\ source.rows[i]["DATE"][2] = m
                    /\ source.rows[i][metric_code] # NaN})

\* the months of the selected scope
ScopeMonthsOf ==
    IF time_mode = "By Season" THEN {m \in 1..12 : season_map[m] = season}
    ELSE IF time_mode = "By Month" THEN {month_index}
    ELSE 1..12

\* every month of the scope with a valid reading has as many as any other, and no
\* undated row has one (the inputs hold one station)
Balanced ==
    /\ \A m, n \in ScopeMonthsOf :
          (RawCount(m) > 0 /\ RawCount(n) > 0) => RawCount(m) = RawCount(n)
    /\ \A i \in DOMAIN source.rows :
          source.rows[i]["DATE"] = <<>> => source.rows[i][metric_code] = NaN

\* C10 as amended: the two summaries agree for every By Month scope, and for a By
\* Season or All Time scope when the station has the same number of valid readings
\* in every month of the scope that has any and no undated reading.
C10_RoundTripBalanced ==
    AggregatedNorms =>
        /\ time_mode = "By Month" => SameSummary(agg_df, DirectSummary)
        /\ Balanced => SameSummary(agg_df, DirectSummary)

\* January of a raw file with readings 0 and 3 in January and one reading in another
\* month: the norm of January is 3/2
C10_Witness ==
    /\ AggregatedNorms
    /\ time_mode = "By Month" /\ month_index = 1
    /\ Len(source.rows) = 3
    /\ RawCount(1) = 2 /\ RawCount(2) = 1
    /\ \E g \in agg_df : g.val = <<3, 2>>

====
